---- MODULE Spec2Model ----
(***************************************************************************)
(* Model of the nudge pipeline of the study-copilot extension:             *)
(*   PrismaNudgeSystem  (extension/claude-nudge-system.js)                 *)
(*   background.js      (batch monitor and manual trigger)                 *)
(*   TandemProcessor    (batch scheduler, extension/memory-client.js)      *)
(* Times are milliseconds, as Date.now() gives them.  Strings the code     *)
(* trims, upper-cases or searches are sequences of one-character strings.  *)
(***************************************************************************)
EXTENDS Integers, Sequences, FiniteSets, TLC

\* ---------------------------------------------------------------- strings
LowerChars == <<"a","b","c","d","e","f","g","h","i","j","k","l","m","n","o","p","q","r","s","t","u","v","w","x","y","z">>
UpperChars == <<"A","B","C","D","E","F","G","H","I","J","K","L","M","N","O","P","Q","R","S","T","U","V","W","X","Y","Z">>
WhiteSpace == {" ", "\t", "\n"}

\* String.prototype.toUpperCase / toLowerCase, character by character
ToUpperChar(c) == IF \E i \in 1..26 : LowerChars[i] = c
                  THEN UpperChars[CHOOSE i \in 1..26 : LowerChars[i] = c] ELSE c
ToLowerChar(c) == IF \E i \in 1..26 : UpperChars[i] = c
                  THEN LowerChars[CHOOSE i \in 1..26 : UpperChars[i] = c] ELSE c
ToUpperCase(s) == [i \in 1..Len(s) |-> ToUpperChar(s[i])]
ToLowerCase(s) == [i \in 1..Len(s) |-> ToLowerChar(s[i])]

\* String.prototype.trim: drop leading and trailing white space
RECURSIVE TrimLeft(_)
TrimLeft(s) == IF s # <<>> /\ Head(s) \in WhiteSpace THEN TrimLeft(Tail(s)) ELSE s
RECURSIVE TrimRight(_)
TrimRight(s) == IF s # <<>> /\ s[Len(s)] \in WhiteSpace
                THEN TrimRight(SubSeq(s, 1, Len(s) - 1)) ELSE s
Trim(s) == TrimRight(TrimLeft(s))

\* String.prototype.includes
Includes(s, p) == \E i \in 0..(Len(s) - Len(p)) : SubSeq(s, i + 1, i + Len(p)) = p

\* the "SILENT" sentinel compared in callPrisma
SilentWord == <<"S","I","L","E","N","T">>

\* genericPhrases of callPrisma
GenericPhrases == {
  <<"I","t","'","s"," ","g","r","e","a","t"," ","t","h","a","t"," ","y","o","u","'","r","e"," ","p","r","a","c","t","i","c","i","n","g">>,
  <<"K","e","e","p"," ","u","p"," ","t","h","e"," ","c","o","n","s","i","s","t","e","n","t"," ","e","f","f","o","r","t">>,
  <<"d","o","n","'","t"," ","h","e","s","i","t","a","t","e"," ","t","o"," ","r","e","a","c","h"," ","o","u","t">>,
  <<"T","h","a","t","'","s"," ","a"," ","k","e","y"," ","p","a","r","t"," ","o","f"," ","t","h","e"," ","l","e","a","r","n","i","n","g"," ","p","r","o","c","e","s","s">>,
  <<"Y","o","u","'","r","e"," ","d","o","i","n","g"," ","w","e","l","l">>,
  <<"G","r","e","a","t"," ","j","o","b">>,
  <<"K","e","e","p"," ","g","o","i","n","g">>,
  <<"Y","o","u","'","v","e"," ","g","o","t"," ","t","h","i","s">> }

\* level-indexed canned texts of callPrisma
FallbackLevel3 ==
  <<"C","h","e","c","k"," ","t","h","e"," ","e","r","r","o","r"," ","m","e","s","s","a","g","e"," ","c","a","r","e","f","u","l","l","y"," ","-"," ","i","t"," ","u","s","u","a","l","l","y"," ","t","e","l","l","s"," ","y","o","u"," ","e","x","a","c","t","l","y"," ","w","h","a","t","'","s"," ","w","r","o","n","g",".">>
FallbackLevel2 ==
  <<"T","r","y"," ","b","r","e","a","k","i","n","g"," ","t","h","e"," ","p","r","o","b","l","e","m"," ","i","n","t","o"," ","s","m","a","l","l","e","r"," ","s","t","e","p","s",".">>
FallbackLevel1 ==
  <<"T","a","k","e"," ","a"," ","s","t","e","p"," ","b","a","c","k"," ","a","n","d"," ","r","e","v","i","e","w"," ","w","h","a","t"," ","y","o","u","'","r","e"," ","t","r","y","i","n","g"," ","t","o"," ","a","c","c","o","m","p","l","i","s","h",".">>

\* generateNudge's text for an empty reply with concerning signals
EmptyFallback ==
  <<"T","a","k","e"," ","a"," ","c","l","o","s","e","r"," ","l","o","o","k"," ","a","t"," ","y","o","u","r"," ","r","e","a","s","o","n","i","n","g"," ","a","n","d"," ","t","r","y"," ","t","o"," ","i","d","e","n","t","i","f","y"," ","a","n","y"," ","a","s","s","u","m","p","t","i","o","n","s"," ","y","o","u"," ","m","a","y"," ","h","a","v","e"," ","m","i","s","s","e","d",".">>

\* generateForcedNudge's text when the model stayed silent
ForcedDefault ==
  <<"K","e","e","p"," ","d","o","i","n","g"," ","w","h","a","t"," ","y","o","u","'","r","e"," ","d","o","i","n","g"," ","-"," ","y","o","u","'","r","e"," ","o","n"," ","t","h","e"," ","r","i","g","h","t"," ","t","r","a","c","k","!">>

\* texts a model can send back (the body of result.content[0].text)
ReplyHint == <<"C","h","e","c","k"," ","l","o","o","p">>
ReplySilentUpper == <<"S","I","L","E","N","T">>
ReplySilentMixed == <<" ","S","i","l","e","n","t","\n">>
ReplySilentLower == <<"s","i","l","e","n","t">>
ReplyBlank == <<" "," ">>
ReplyGeneric == <<"G","r","e","a","t"," ","j","o","b","!">>

\* ------------------------------------------------------------- constants
NudgeCooldown0 == 10000
NudgeCooldown1 == 15000
NudgeCooldown2 == 20000
NudgeCooldown3 == 30000
nudgeCooldowns == (0 :> NudgeCooldown0) @@ (1 :> NudgeCooldown1) @@ (2 :> NudgeCooldown2) @@ (3 :> NudgeCooldown3)
toLevel1 == 2
toLevel2 == 4
toLevel3 == 6
SuccessCooldown == 5000
MathCooldownCap == 8000
DecayAfter == 300000
NudgeHistoryCap == 20
AnalyzedBatchesCap == 50
AnalyzedBatchesKeep == 25
minWaitTime == 15000
maxWaitTime == 45000
thoughtCompleteThreshold == 10000
RawRetention == 120000
BatchHistoryCap == 10

\* ---------------------------------------------------------------- bounds
StartTime == 1000000     \* Date.now() when the service worker starts
MaxSteps  == 4           \* operations and clock advances in one run of the class
MaxSysSteps == 6         \* messages, timer firings, replies and clock advances in one run
PollPeriod == 5000
MaxRounds == 25          \* poll periods in one typing session
MaxPauses == 1           \* poll periods without a capture among those still buffered
LateSteps == 3           \* steps followed from a state late in a session
OldSpacing == 30000      \* time between the batches of the earlier session
TickSteps == {10000, DecayAfter}

Max(a, b) == IF a >= b THEN a ELSE b
Min(a, b) == IF a <= b THEN a ELSE b

\* ------------------------------------------------------ structured text
\* What the analyzer's tests find in a batch's structuredText:
\*   tags       the inline tags present
\*   delays     the N of every <delay time="Ns" marker
\*   behaviors  the type="..." behavior markers present
\*   duration   the N of the first duration="Ns", -1 when there is none
\*   math       a math keyword, a fraction or a math symbol is present
\*   mathError  a suspicious dice fraction or an errorPattern is present
\*   completion a completion keyword is present
\*   correct    a mathCompletionPattern matches
Text(tags, delays, behaviors, duration, math, mathError, completion, correct) ==
  [tags |-> tags, delays |-> delays, behaviors |-> behaviors, duration |-> duration,
   math |-> math, mathError |-> mathError, completion |-> completion, correct |-> correct]

TextQuiet     == Text({}, {}, {}, -1, FALSE, FALSE, FALSE, FALSE)
TextMinor     == Text({"error_signal"}, {}, {}, -1, FALSE, FALSE, FALSE, FALSE)
TextScenarioA == Text({"confusion_signal"}, {40}, {}, -1, FALSE, FALSE, FALSE, FALSE)
TextScenarioB == Text({"incorrect_answer_signal"}, {}, {"frequent_errors"}, -1, FALSE, FALSE, FALSE, FALSE)
TextScenarioC == Text({}, {}, {}, -1, TRUE, FALSE, TRUE, TRUE)
TextSevere    == Text({"error_signal", "confusion_signal", "incorrect_answer_signal"}, {}, {}, -1,
                      TRUE, FALSE, FALSE, FALSE)
ForcedTexts == {TextQuiet, TextScenarioA}
SampleTexts == {TextQuiet, TextMinor, TextScenarioA, TextScenarioB, TextScenarioC, TextSevere}

\* every combination of what the analyzer's tests can find
AllTexts ==
  { Text(tags, delays, behaviors, duration, math[1], math[2], done, done) :
      tags \in SUBSET {"error_signal", "confusion_signal", "repetitive", "incorrect_answer_signal"},
      delays \in {{}, {30}, {31, 45}},
      behaviors \in SUBSET {"context_switching", "frequent_errors", "prolonged_focus"},
      duration \in {-1, 300, 301},
      math \in BOOLEAN \X BOOLEAN,
      done \in BOOLEAN }

\* analyzeStructuredText: the concern score, the urgency and the pattern flags
\* (variant: every long delay counts)
ConcerningSignals_PerDelay(text) ==
    (IF "error_signal" \in text.tags THEN 1 ELSE 0)
  + (IF "confusion_signal" \in text.tags THEN 2 ELSE 0)
  + (IF "repetitive" \in text.tags THEN 1 ELSE 0)
  + Cardinality({d \in text.delays : d > 30})
  + (IF "context_switching" \in text.behaviors THEN 1 ELSE 0)
  + (IF "frequent_errors" \in text.behaviors THEN 2 ELSE 0)
  + (IF "prolonged_focus" \in text.behaviors /\ text.duration > 300 THEN 1 ELSE 0)
  + (IF text.math /\ text.mathError THEN 2 ELSE 0)
  + (IF "incorrect_answer_signal" \in text.tags THEN 3 ELSE 0)

ConcerningSignals(text) ==
    (IF "error_signal" \in text.tags THEN 1 ELSE 0)
  + (IF "confusion_signal" \in text.tags THEN 2 ELSE 0)
  + (IF "repetitive" \in text.tags THEN 1 ELSE 0)
  + (IF \E d \in text.delays : d > 30 THEN 1 ELSE 0)
  + (IF "context_switching" \in text.behaviors THEN 1 ELSE 0)
  + (IF "frequent_errors" \in text.behaviors THEN 2 ELSE 0)
  + (IF "prolonged_focus" \in text.behaviors /\ text.duration > 300 THEN 1 ELSE 0)
  + (IF text.math /\ text.mathError THEN 2 ELSE 0)
  + (IF "incorrect_answer_signal" \in text.tags THEN 3 ELSE 0)

\* (variant: "high" only at the threshold itself)
Urgency_ExactHigh(score) == IF score = 6 THEN "high" ELSE IF score >= 3 THEN "medium" ELSE "low"

Urgency(score) == IF score >= 6 THEN "high" ELSE IF score >= 3 THEN "medium" ELSE "low"

analyzeStructuredText(text) ==
  [concerningSignals      |-> ConcerningSignals(text),
   urgency                |-> Urgency(ConcerningSignals(text)),
   hasMathematicalContent |-> text.math,
   hasCompletionSignals   |-> text.completion,
   hasSuccessIndicators   |-> text.math /\ text.correct]

\* -------------------------------------------------- PrismaNudgeSystem
\* updateInterferenceLevel: the level after one update
\* (variant: assigns the target level instead of taking the maximum)
Escalate_Assign(level, score) ==
  IF score >= toLevel3 THEN 3
  ELSE IF score >= toLevel2 THEN 2
  ELSE IF score >= toLevel1 THEN 1
  ELSE level

Escalate(level, score) ==
  IF score >= toLevel3 THEN Max(level, 3)
  ELSE IF score >= toLevel2 THEN Max(level, 2)
  ELSE IF score >= toLevel1 THEN Max(level, 1)
  ELSE level

\* (variant: decays whatever the score)
Decay_AnyScore(level, score, t, lnt) ==
  IF t - lnt > DecayAfter THEN Max(0, level - 1) ELSE level

\* (variant: decays at exactly five minutes)
Decay_AtBoundary(level, score, t, lnt) ==
  IF t - lnt >= DecayAfter /\ score < 2 THEN Max(0, level - 1) ELSE level

Decay(level, score, t, lnt) ==
  IF t - lnt > DecayAfter /\ score < 2 THEN Max(0, level - 1) ELSE level

\* (variant: the success branch forgets the floor at 0)
updateInterferenceLevel_NoFloor(level, analysis, t, lnt) ==
  IF analysis.hasSuccessIndicators /\ analysis.concerningSignals = 0
  THEN level - 1
  ELSE Decay(Escalate(level, analysis.concerningSignals), analysis.concerningSignals, t, lnt)

\* (variant: the success branch does not return, so decay follows it)
updateInterferenceLevel_FallThrough(level, analysis, t, lnt) ==
  Decay(IF analysis.hasSuccessIndicators /\ analysis.concerningSignals = 0
        THEN Max(0, level - 1)
        ELSE Escalate(level, analysis.concerningSignals),
        analysis.concerningSignals, t, lnt)

updateInterferenceLevel(level, analysis, t, lnt) ==
  IF analysis.hasSuccessIndicators /\ analysis.concerningSignals = 0
  THEN Max(0, level - 1)
  ELSE Decay(Escalate(level, analysis.concerningSignals), analysis.concerningSignals, t, lnt)

\* shouldNudge: the cooldown it applies, and its answer
Cooldown(level, analysis) ==
  LET hasProblems == analysis.concerningSignals > 0
      base == IF analysis.hasSuccessIndicators /\ ~hasProblems
              THEN SuccessCooldown ELSE nudgeCooldowns[level]
  IN  IF analysis.hasMathematicalContent /\ hasProblems
      THEN Min(base, MathCooldownCap) ELSE base

\* (variant: a nudge is allowed when exactly the cooldown has passed)
shouldNudge_AtCooldown(level, analysis, t, lnt) ==
  /\ (analysis.concerningSignals > 0 \/ analysis.hasSuccessIndicators)
  /\ t - lnt >= Cooldown(level, analysis)

shouldNudge(level, analysis, t, lnt) ==
  /\ (analysis.concerningSignals > 0 \/ analysis.hasSuccessIndicators)
  /\ t - lnt > Cooldown(level, analysis)

\* callPrisma: what the call returns for a reply of the model, read at the
\* level the system is at when the reply arrives
Reply(ok, hasContent, text) == [ok |-> ok, hasContent |-> hasContent, text |-> text]
ModelReplies ==
  { Reply(TRUE, TRUE, ReplyHint), Reply(TRUE, TRUE, ReplySilentUpper),
    Reply(TRUE, TRUE, ReplySilentMixed), Reply(TRUE, TRUE, ReplySilentLower),
    Reply(TRUE, TRUE, ReplyBlank), Reply(TRUE, TRUE, ReplyGeneric),
    Reply(TRUE, TRUE, <<>>), Reply(TRUE, FALSE, <<>>), Reply(FALSE, FALSE, <<>>) }

isGeneric(responseText) ==
  \E phrase \in GenericPhrases : Includes(ToLowerCase(responseText), ToLowerCase(phrase))

Returned(isNull, text) == [threw |-> FALSE, isNull |-> isNull, text |-> text]
Thrown == [threw |-> TRUE, isNull |-> TRUE, text |-> <<>>]

Levels == 0..3

prismaResult(reply, level) ==
  IF ~reply.ok THEN Thrown
  ELSE IF ~reply.hasContent \/ reply.text = <<>> THEN Thrown
  ELSE LET responseText == Trim(reply.text)
       IN  IF ToUpperCase(responseText) = SilentWord THEN Returned(TRUE, <<>>)
           ELSE IF isGeneric(responseText)
                THEN Returned(FALSE, IF level >= 3 THEN FallbackLevel3
                                     ELSE IF level >= 2 THEN FallbackLevel2
                                     ELSE FallbackLevel1)
                ELSE Returned(FALSE, responseText)

\* callPrisma, evaluated once for every reply and level
PrismaResults == [reply \in ModelReplies, level \in Levels |-> prismaResult(reply, level)]
callPrisma(reply, level) == PrismaResults[reply, level]

\* buildPrismaPrompt: the template the prompt is built from
buildPrismaPrompt(level, analysis) ==
  IF analysis.hasSuccessIndicators /\ ~(analysis.concerningSignals > 0) THEN "congratulate"
  ELSE CASE level = 1 -> "gentle"
         [] level = 2 -> "hint"
         [] level = 3 -> "direct"
         [] OTHER     -> "default"

\* the text generateNudge ends with: <<>> stands for "no nudge"
\* (variant: an empty reply is always skipped)
cleanedText_NoFallback(result, analysis) ==
  Trim(IF result.isNull THEN <<>> ELSE result.text)

cleanedText(result, analysis) ==
  LET cleaned == Trim(IF result.isNull THEN <<>> ELSE result.text)
  IN  IF cleaned # <<>> THEN cleaned
      ELSE IF analysis.concerningSignals > 0 THEN EmptyFallback ELSE <<>>

\* what generateNudge returns: the text of its nudge, <<>> when it returns
\* null (nothing to say, or the call threw and the catch returned null)
\* (variant: a failed call is treated like an empty reply)
nudgeText_FallbackOnError(result, analysis) == cleanedText(result, analysis)

nudgeText(result, analysis) ==
  IF result.threw THEN <<>> ELSE cleanedText(result, analysis)

\* the text generateForcedNudge ends with
finalText(result) ==
  IF result.isNull \/ result.text = <<>> THEN ForcedDefault ELSE result.text

\* this.nudgeHistory.push(nudge) followed by the slice(-20)
\* (variant: keeps the first 20)
pushNudge_KeepOldest(history, nudge) ==
  LET h == Append(history, nudge)
  IN  IF Len(h) > NudgeHistoryCap THEN SubSeq(h, 1, NudgeHistoryCap) ELSE h

pushNudge(history, nudge) ==
  LET h == Append(history, nudge)
  IN  IF Len(h) > NudgeHistoryCap THEN SubSeq(h, Len(h) - NudgeHistoryCap + 1, Len(h)) ELSE h

\* ----------------------------------------------------------------- state
VARIABLES
  now,                \* Date.now()
  steps,              \* operations and clock advances so far
  interferenceLevel,  \* PrismaNudgeSystem.interferenceLevel
  lastNudgeTime,      \* PrismaNudgeSystem.lastNudgeTime
  nudgeHistory,       \* PrismaNudgeSystem.nudgeHistory
  calls,              \* generate calls awaiting the model's reply, oldest first
  rawCaptureData,     \* TandemProcessor.rawCaptureData
  structuredBatches,  \* TandemProcessor.structuredBatches
  lastProcessTime,    \* TandemProcessor.lastProcessTime
  lastActivityTime,   \* TandemProcessor.lastActivityTime
  storedApiKey,       \* background.js: an API key has been stored
  analyzedBatches,    \* background.js: batch ids already analysed, oldest first
  lastOp              \* the operation that ran last, with what it saw and decided

sysVars == <<rawCaptureData, structuredBatches, lastProcessTime, lastActivityTime,
            storedApiKey, analyzedBatches>>
vars == <<now, steps, interferenceLevel, lastNudgeTime, nudgeHistory, calls, lastOp,
          rawCaptureData, structuredBatches, lastProcessTime, lastActivityTime,
          storedApiKey, analyzedBatches>>

NoText == Text({}, {}, {}, -1, FALSE, FALSE, FALSE, FALSE)
NoReply == Reply(FALSE, FALSE, <<>>)
NoOp == [op |-> "init", kind |-> "none", given |-> FALSE, text |-> NoText, reply |-> NoReply,
         level |-> 0, lnt |-> 0, len |-> 0, should |-> FALSE, cooldown |-> 0,
         started |-> FALSE, emitted |-> FALSE, reason |-> "none",
         score |-> 0, urgency |-> "low", prompt |-> "none"]

Batch(id, text) == [batchId |-> id, structuredText |-> text]

Init ==
  /\ now = StartTime
  /\ steps = 0
  /\ interferenceLevel = 0
  /\ lastNudgeTime = 0
  /\ nudgeHistory = <<>>
  /\ calls = <<>>
  /\ lastOp = NoOp
  /\ rawCaptureData = <<>>
  /\ structuredBatches = <<>>
  /\ lastProcessTime = 0
  /\ lastActivityTime = 0
  /\ storedApiKey = FALSE
  /\ analyzedBatches = <<>>

\* the state an operation starts from, as lastOp records it
Seen(op, kind, given, text) ==
  [NoOp EXCEPT !.op = op, !.kind = kind, !.given = given, !.text = text,
               !.level = interferenceLevel,
               !.lnt = lastNudgeTime, !.len = Len(nudgeHistory)]

Step == steps' = steps + 1

\* analyzeAndNudge with a missing batch or API key: returns null
AnalyzeMissing ==
  /\ lastOp' = Seen("analyze", "auto", FALSE, NoText)
  /\ Step
  /\ UNCHANGED <<now, interferenceLevel, lastNudgeTime, nudgeHistory, calls>>

\* analyzeAndNudge(batch, apiKey) up to the await of generateNudge
analyzeAndNudge(batch) ==
  LET analysis == analyzeStructuredText(batch.structuredText)
      level    == updateInterferenceLevel(interferenceLevel, analysis, now, lastNudgeTime)
      should   == shouldNudge(level, analysis, now, lastNudgeTime)
  IN  /\ Step
      /\ interferenceLevel' = level
      /\ calls' = IF should
                  THEN Append(calls, [kind |-> "auto", now |-> now, text |-> batch.structuredText,
                                      batchId |-> batch.batchId, orig |-> 0,
                                      cooldown |-> Cooldown(level, analysis),
                                      prompt |-> buildPrismaPrompt(level, analysis)])
                  ELSE calls
      /\ lastOp' = [Seen("analyze", "auto", TRUE, batch.structuredText) EXCEPT
                      !.should = should, !.cooldown = Cooldown(level, analysis),
                      !.started = should, !.score = analysis.concerningSignals,
                      !.urgency = analysis.urgency]
      /\ UNCHANGED <<now, lastNudgeTime, nudgeHistory>>

\* forceAnalyzeAndNudge with a missing batch or API key: returns null
ForceMissing ==
  /\ lastOp' = Seen("force", "forced", FALSE, NoText)
  /\ Step
  /\ UNCHANGED <<now, interferenceLevel, lastNudgeTime, nudgeHistory, calls>>

\* the level forceAnalyzeAndNudge leaves
\* (variant: always sets level 1)
forcedLevel_AlwaysOne(level) == 1

forcedLevel(level) == IF level = 0 THEN 1 ELSE level

\* forceAnalyzeAndNudge(batch, apiKey) up to the await of generateForcedNudge
forceAnalyzeAndNudge(batch) ==
  /\ Step
  /\ lastNudgeTime' = 0
  /\ interferenceLevel' = forcedLevel(interferenceLevel)
  /\ calls' = Append(calls, [kind |-> "forced", now |-> now, text |-> batch.structuredText,
                             batchId |-> batch.batchId, orig |-> lastNudgeTime,
                             cooldown |-> 0, prompt |-> "forced"])
  /\ lastOp' = [Seen("force", "forced", TRUE, batch.structuredText) EXCEPT !.started = TRUE]
  /\ UNCHANGED <<now, nudgeHistory>>

Remove(s, i) == SubSeq(s, 1, i - 1) \o SubSeq(s, i + 1, Len(s))

\* generateNudge from the reply of the model to its return
generateNudge(i, reply) ==
  LET call     == calls[i]
      analysis == analyzeStructuredText(call.text)
      result   == callPrisma(reply, interferenceLevel)
      text     == nudgeText(result, analysis)
      nudge    == [timestamp |-> call.now, level |-> interferenceLevel, text |-> text,
                   analysis |-> analysis, batchId |-> call.batchId,
                   forced |-> FALSE, manualTrigger |-> FALSE]
  IN  /\ call.kind = "auto"
      /\ calls' = Remove(calls, i)
      /\ IF text = <<>>
         THEN UNCHANGED <<nudgeHistory, lastNudgeTime>>
         ELSE /\ nudgeHistory' = pushNudge(nudgeHistory, nudge)
              /\ lastNudgeTime' = call.now
      /\ lastOp' = [Seen("reply", "auto", TRUE, call.text) EXCEPT
                      !.reply = reply, !.cooldown = call.cooldown,
                      !.emitted = (text # <<>>), !.prompt = call.prompt]
      /\ Step
  /\ UNCHANGED <<now, interferenceLevel>>

\* generateForcedNudge from the reply of the model to its return, then the
\* rest of forceAnalyzeAndNudge, which puts the saved lastNudgeTime back
generateForcedNudge(i, reply) ==
  LET call     == calls[i]
      analysis == analyzeStructuredText(call.text)
      result   == callPrisma(reply, interferenceLevel)
      nudge    == [timestamp |-> call.now, level |-> interferenceLevel,
                   text |-> finalText(result), analysis |-> analysis,
                   batchId |-> call.batchId, forced |-> TRUE, manualTrigger |-> TRUE]
  IN  /\ call.kind = "forced"
      /\ calls' = Remove(calls, i)
      /\ nudgeHistory' = IF result.threw THEN nudgeHistory ELSE pushNudge(nudgeHistory, nudge)
      /\ lastNudgeTime' = call.orig
      /\ lastOp' = [Seen("reply", "forced", TRUE, call.text) EXCEPT
                      !.reply = reply, !.emitted = ~result.threw]
      /\ Step
  /\ UNCHANGED <<now, interferenceLevel>>

\* reset()
reset ==
  /\ nudgeHistory' = <<>>
  /\ interferenceLevel' = 0
  /\ lastNudgeTime' = 0
  /\ lastOp' = Seen("reset", "none", FALSE, NoText)
  /\ Step
  /\ UNCHANGED <<now, calls>>

\* the clock moves on
Tick(d) ==
  /\ Step
  /\ now' = now + d
  /\ lastOp' = Seen("tick", "none", FALSE, NoText)
  /\ UNCHANGED <<interferenceLevel, lastNudgeTime, nudgeHistory, calls>>

\* ------------------------------------------------------ TandemProcessor
\* What the scheduler's and the composer's keyword tests find in one diff.
Diff(errorKw, confusionKw, urgentKw, doneKw, incorrect, correct) ==
  [errorKw |-> errorKw, confusionKw |-> confusionKw, urgentKw |-> urgentKw,
   doneKw |-> doneKw, incorrect |-> incorrect, correct |-> correct]
DiffNotes  == Diff(FALSE, FALSE, FALSE, FALSE, FALSE, FALSE)   \* "typing my notes"
DiffStuck  == Diff(TRUE, FALSE, TRUE, FALSE, FALSE, FALSE)     \* "i am stuck"
SampleDiffs == {DiffNotes, DiffStuck}
SampleUrls  == {"https://a.example/page"}

\* new Date(entry.capturedAt).getTime(): the page's capture reaches the
\* service worker in the same millisecond
capturedAt(entry) == entry.receivedAt

Last(s, n) == SubSeq(s, Max(1, Len(s) - n + 1), Len(s))

\* detectNaturalBreak
detectNaturalBreak(raw) ==
  IF Len(raw) < 3 THEN FALSE
  ELSE LET recent == Last(raw, 5)
       IN  \/ recent[Len(recent)].diff.doneKw
           \/ Cardinality({recent[k].url : k \in 1..Len(recent)}) > 1

\* hasUrgentSignals
\* (variant: all three recent entries must be urgent)
hasUrgentSignals_AllThree(raw) ==
  LET recent == Last(raw, 3)
  IN  Cardinality({k \in 1..Len(recent) : recent[k].diff.urgentKw}) >= 3

hasUrgentSignals(raw) ==
  LET recent == Last(raw, 3)
  IN  Cardinality({k \in 1..Len(recent) : recent[k].diff.urgentKw}) >= 2

\* shouldProcessBatch: the reason to seal now, "none" when it answers false
\* (variant: without the thought-complete rule)
shouldProcessBatch_NoPause(raw, t, lastProcess, lastActivity) ==
  IF t - lastActivity >= maxWaitTime THEN "max wait"
  ELSE IF t - lastProcess < minWaitTime THEN "none"
  ELSE IF detectNaturalBreak(raw) THEN "natural break"
  ELSE IF hasUrgentSignals(raw) THEN "urgent"
  ELSE "none"

\* (variant: without the maximum-wait rule)
shouldProcessBatch_NoCeiling(raw, t, lastProcess, lastActivity) ==
  IF t - lastProcess < minWaitTime THEN "none"
  ELSE IF t - lastActivity >= thoughtCompleteThreshold THEN "thought complete"
  ELSE IF detectNaturalBreak(raw) THEN "natural break"
  ELSE IF hasUrgentSignals(raw) THEN "urgent"
  ELSE "none"

\* (variant: without the minimum-wait rule)
shouldProcessBatch_NoMinWait(raw, t, lastProcess, lastActivity) ==
  IF t - lastActivity >= maxWaitTime THEN "max wait"
  ELSE IF t - lastActivity >= thoughtCompleteThreshold THEN "thought complete"
  ELSE IF detectNaturalBreak(raw) THEN "natural break"
  ELSE IF hasUrgentSignals(raw) THEN "urgent"
  ELSE "none"

shouldProcessBatch(raw, t, lastProcess, lastActivity) ==
  IF t - lastActivity >= maxWaitTime THEN "max wait"
  ELSE IF t - lastProcess < minWaitTime THEN "none"
  ELSE IF t - lastActivity >= thoughtCompleteThreshold THEN "thought complete"
  ELSE IF detectNaturalBreak(raw) THEN "natural break"
  ELSE IF hasUrgentSignals(raw) THEN "urgent"
  ELSE "none"

\* calculateTimespan
RECURSIVE MaxOf(_)
MaxOf(S) == LET x == CHOOSE x \in S : TRUE
            IN  IF S = {x} THEN x ELSE Max(x, MaxOf(S \ {x}))
RECURSIVE MinOf(_)
MinOf(S) == LET x == CHOOSE x \in S : TRUE
            IN  IF S = {x} THEN x ELSE Min(x, MinOf(S \ {x}))
calculateTimespan(batchData) ==
  IF Len(batchData) < 2 THEN 0
  ELSE LET times == {capturedAt(batchData[k]) : k \in 1..Len(batchData)}
       IN  MaxOf(times) - MinOf(times)

\* Math.round(ms / 1000)
RoundSeconds(ms) == (ms + 500) \div 1000

\* createStructuredBatch: what the analyzer will find in the composed text.
\* The wrapper <batch timestamp="..." entries="N"> holds "=" and "/", which
\* the analyzer counts as mathematical content and as a completion keyword.
createStructuredBatch(batchData) ==
  LET n        == Len(batchData)
      has(Test(_)) == \E k \in 1..n : Test(batchData[k].diff)
      isError(d)     == d.errorKw
      isConfusion(d) == d.confusionKw
      isIncorrect(d) == d.incorrect
      isCorrect(d)   == d.correct
      times    == {capturedAt(batchData[k]) : k \in 1..n}
      gaps     == {b - a : <<a, b>> \in
                     {<<a, b>> \in times \X times :
                        a < b /\ ~\E c \in times : a < c /\ c < b}}
      timespan == calculateTimespan(batchData)
      urls     == {batchData[k].url : k \in 1..n}
      errors   == Cardinality({k \in 1..n : batchData[k].diff.errorKw})
  IN  Text((IF has(isError) THEN {"error_signal"} ELSE {})
             \cup (IF has(isConfusion) THEN {"confusion_signal"} ELSE {})
             \cup (IF has(isIncorrect) THEN {"incorrect_answer_signal"} ELSE {}),
           {RoundSeconds(g) : g \in {g \in gaps : g > 5000}},
           (IF Cardinality(urls) > 3 THEN {"context_switching"} ELSE {})
             \cup (IF timespan > 60000 THEN {"prolonged_focus"} ELSE {})
             \cup (IF errors > 2 THEN {"frequent_errors"} ELSE {}),
           IF timespan > 60000 THEN RoundSeconds(timespan) ELSE -1,
           TRUE, has(isIncorrect), TRUE, has(isCorrect))

\* this.structuredBatches.push(batch) followed by the slice(-10)
pushBatch(batches, batch) ==
  LET b == Append(batches, batch)
  IN  IF Len(b) > BatchHistoryCap THEN SubSeq(b, Len(b) - BatchHistoryCap + 1, Len(b)) ELSE b

\* processBatch: the entries of the new batch, received after `since`
batchData(raw, since) == SelectSeq(raw, LAMBDA entry : entry.receivedAt > since)

newBatch(data, t) ==
  [batchId |-> t, timestamp |-> t, structuredText |-> createStructuredBatch(data),
   rawEntryCount |-> Len(data), timespan |-> calculateTimespan(data)]

\* addCaptureData: push, then keep the last two minutes
\* (variant: an entry exactly two minutes old is kept)
addCaptureData_KeepBoundary(raw, entry, t) ==
  SelectSeq(Append(raw, entry), LAMBDA e : e.receivedAt >= t - RawRetention)

addCaptureData(raw, entry, t) ==
  SelectSeq(Append(raw, entry), LAMBDA e : e.receivedAt > t - RawRetention)

\* ---------------------------------------------- the class, called freely
AnyAutoReply   == \E i \in 1..Len(calls), reply \in ModelReplies : generateNudge(i, reply)
AnyForcedReply == \E i \in 1..Len(calls), reply \in ModelReplies : generateForcedNudge(i, reply)
AnyTick        == \E d \in TickSteps : Tick(d)

InClass == steps < MaxSteps /\ UNCHANGED sysVars

Analyze     == InClass /\ \E text \in SampleTexts : analyzeAndNudge(Batch(now, text))
AnalyzeNone == InClass /\ AnalyzeMissing
Force       == InClass /\ \E text \in ForcedTexts : forceAnalyzeAndNudge(Batch(now, text))
ForceNone   == InClass /\ ForceMissing
AutoReply   == InClass /\ AnyAutoReply
ForcedReply == InClass /\ AnyForcedReply
Reset       == InClass /\ reset
Advance     == InClass /\ AnyTick

NextNudge ==
  \/ Analyze
  \/ AnalyzeNone
  \/ Force
  \/ ForceNone
  \/ AutoReply
  \/ ForcedReply
  \/ Reset
  \/ Advance

SpecNudge == Init /\ [][NextNudge]_vars

\* ------------------------------------- one analysis of any batch text
AnalyzeAny ==
  /\ lastOp.op = "init"
  /\ UNCHANGED sysVars
  /\ \E text \in AllTexts : analyzeAndNudge(Batch(now, text))

SpecAnalyze == Init /\ [][AnalyzeAny]_vars

\* ------------------------------------------- background.js and the timers
InSystem == steps < MaxSysSteps

\* SET_API_KEY from the sidebar
SetApiKey ==
  /\ InSystem
  /\ ~storedApiKey
  /\ storedApiKey' = TRUE
  /\ lastOp' = Seen("set key", "none", FALSE, NoText)
  /\ Step
  /\ UNCHANGED <<now, interferenceLevel, lastNudgeTime, nudgeHistory, calls,
                 rawCaptureData, structuredBatches, lastProcessTime, lastActivityTime,
                 analyzedBatches>>

\* CAPTURE_DATA with a non-blank diff: tandemProcessor.addCaptureData
capture(diff, url) ==
  /\ rawCaptureData' =
       addCaptureData(rawCaptureData, [receivedAt |-> now, diff |-> diff, url |-> url], now)
  /\ lastActivityTime' = now
  /\ lastOp' = Seen("capture", "none", FALSE, NoText)
  /\ Step
  /\ UNCHANGED <<now, interferenceLevel, lastNudgeTime, nudgeHistory, calls,
                 structuredBatches, lastProcessTime, storedApiKey, analyzedBatches>>

CaptureData ==
  \E diff \in SampleDiffs, url \in SampleUrls : InSystem /\ capture(diff, url)

\* one firing of the interval of startDynamicBatchProcessing, with processBatch
schedulerPoll ==
  LET data == batchData(rawCaptureData, lastProcessTime)
      seal == /\ rawCaptureData # <<>>
              /\ shouldProcessBatch(rawCaptureData, now, lastProcessTime,
                                    lastActivityTime) # "none"
              /\ data # <<>>
  IN  /\ structuredBatches' =
           IF seal THEN pushBatch(structuredBatches, newBatch(data, now))
           ELSE structuredBatches
      /\ lastProcessTime' = IF seal THEN now ELSE lastProcessTime
      /\ lastOp' = [Seen("poll", "none", FALSE, NoText) EXCEPT
                      !.started = seal,
                      !.reason = IF rawCaptureData = <<>> THEN "none"
                                 ELSE shouldProcessBatch(rawCaptureData, now, lastProcessTime,
                                                         lastActivityTime)]
      /\ Step
      /\ UNCHANGED <<now, interferenceLevel, lastNudgeTime, nudgeHistory, calls,
                     rawCaptureData, lastActivityTime, storedApiKey, analyzedBatches>>

SchedulerPoll == InSystem /\ schedulerPoll

\* analyzedBatches.add(batchId) followed by the trim to the last 25
addAnalyzed(ids, id) ==
  LET a == IF \E k \in 1..Len(ids) : ids[k] = id THEN ids ELSE Append(ids, id)
  IN  IF Len(a) > AnalyzedBatchesCap
      THEN SubSeq(a, Len(a) - AnalyzedBatchesKeep + 1, Len(a)) ELSE a

\* shouldAnalyzeBatch
shouldAnalyzeBatch(batch, ids) == ~\E k \in 1..Len(ids) : ids[k] = batch.batchId

\* one firing of the interval of startBatchMonitoring that finds nothing to do
MonitorIdle ==
  /\ InSystem
  /\ \/ ~storedApiKey
     \/ structuredBatches = <<>>
     \/ ~shouldAnalyzeBatch(structuredBatches[Len(structuredBatches)], analyzedBatches)
  /\ lastOp' = Seen("monitor", "none", FALSE, NoText)
  /\ Step
  /\ UNCHANGED <<now, interferenceLevel, lastNudgeTime, nudgeHistory, calls,
                 rawCaptureData, structuredBatches, lastProcessTime, lastActivityTime,
                 storedApiKey, analyzedBatches>>

\* one firing of the interval of startBatchMonitoring that analyses the
\* latest batch: analyzeBatchWithPrisma up to its await
BatchMonitor ==
  /\ InSystem
  /\ storedApiKey
  /\ structuredBatches # <<>>
  /\ LET latestBatch == structuredBatches[Len(structuredBatches)]
     IN  /\ shouldAnalyzeBatch(latestBatch, analyzedBatches)
         /\ analyzedBatches' = addAnalyzed(analyzedBatches, latestBatch.batchId)
         /\ analyzeAndNudge(latestBatch)
  /\ UNCHANGED <<rawCaptureData, structuredBatches, lastProcessTime, lastActivityTime,
                 storedApiKey>>

\* TRIGGER_AI_NOW that ends in an error: no API key, or no data to analyze
ManualTriggerFails ==
  /\ InSystem
  /\ ~storedApiKey \/ rawCaptureData = <<>>
  /\ lastOp' = Seen("manual", "forced", FALSE, NoText)
  /\ Step
  /\ UNCHANGED <<now, interferenceLevel, lastNudgeTime, nudgeHistory, calls,
                 rawCaptureData, structuredBatches, lastProcessTime, lastActivityTime,
                 storedApiKey, analyzedBatches>>

\* TRIGGER_AI_NOW: forceProcessBatch seals every buffered entry and leaves
\* lastProcessTime as it was; then forceAnalyzeAndNudge up to its await
ManualTrigger ==
  /\ InSystem
  /\ storedApiKey
  /\ rawCaptureData # <<>>
  /\ LET forcedBatch == newBatch(batchData(rawCaptureData, 0), now)
     IN  /\ structuredBatches' = pushBatch(structuredBatches, forcedBatch)
         /\ forceAnalyzeAndNudge(forcedBatch)
  /\ UNCHANGED <<rawCaptureData, lastProcessTime, lastActivityTime, storedApiKey,
                 analyzedBatches>>

\* what the sidebar receives for TRIGGER_AI_NOW: handleManualAITrigger's
\* return value or the message of the error it threw
ManualError(reason) == [success |-> FALSE, nudgeGenerated |-> FALSE, error |-> reason]
ManualResult(nudgeGiven) == [success |-> TRUE, nudgeGenerated |-> nudgeGiven, error |-> "none"]

\* the response to the manual trigger that ended last
manualResponse ==
  IF lastOp.op = "manual"
  THEN IF ~storedApiKey THEN ManualError("API key not configured")
       ELSE ManualError("No data to analyze")
  ELSE IF lastOp.op = "reply" /\ lastOp.kind = "forced"
  THEN ManualResult(lastOp.emitted)
  ELSE ManualResult(FALSE)

PrismaReply       == InSystem /\ AnyAutoReply /\ UNCHANGED sysVars
PrismaForcedReply == InSystem /\ AnyForcedReply /\ UNCHANGED sysVars
TimePasses        == InSystem /\ AnyTick /\ UNCHANGED sysVars

Next ==
  \/ SetApiKey
  \/ CaptureData
  \/ SchedulerPoll
  \/ MonitorIdle
  \/ BatchMonitor
  \/ ManualTriggerFails
  \/ ManualTrigger
  \/ PrismaReply
  \/ PrismaForcedReply
  \/ TimePasses

Spec == Init /\ [][Next]_vars

\* ------------------------------------------------ late in a long session
\* The state after n batches, one every OldSpacing: each came from one
\* capture with an error keyword, sealed after a pause of
\* thoughtCompleteThreshold, was analysed by the monitor at once and got a
\* hint from the model. One more capture has arrived since.
OldCounts == {BatchHistoryCap - 1, NudgeHistoryCap - 1, NudgeHistoryCap}
OldTime(k, n) == StartTime - (n - k + 1) * OldSpacing
OldEntry(k, n) ==
  [receivedAt |-> OldTime(k, n) - thoughtCompleteThreshold, diff |-> DiffStuck,
   url |-> CHOOSE u \in SampleUrls : TRUE]
OldBatch(k, n) == newBatch(<<OldEntry(k, n)>>, OldTime(k, n))
OldNudge(k, n) ==
  [timestamp |-> OldTime(k, n), level |-> 0, text |-> ReplyHint,
   analysis |-> analyzeStructuredText(OldBatch(k, n).structuredText),
   batchId |-> OldBatch(k, n).batchId, forced |-> FALSE, manualTrigger |-> FALSE]
\* the capture that arrived after the last batch is entry n + 1
OldBuffer(n) ==
  SelectSeq([k \in 1..(n + 1) |-> OldEntry(k, n)],
            LAMBDA e : e.receivedAt > OldEntry(n + 1, n).receivedAt - RawRetention)

InitLate ==
  \E n \in OldCounts :
    /\ now = StartTime
    /\ steps = MaxSysSteps - LateSteps
    /\ interferenceLevel = 0
    /\ lastNudgeTime = OldTime(n, n)
    /\ nudgeHistory = [k \in 1..n |-> OldNudge(k, n)]
    /\ calls = <<>>
    /\ lastOp = NoOp
    /\ rawCaptureData = OldBuffer(n)
    /\ structuredBatches =
         LET m == Min(n, BatchHistoryCap)
         IN  [j \in 1..m |-> OldBatch(n - m + j, n)]
    /\ lastProcessTime = OldTime(n, n)
    /\ lastActivityTime = OldEntry(n + 1, n).receivedAt
    /\ storedApiKey = TRUE
    /\ analyzedBatches = [k \in 1..n |-> OldBatch(k, n).batchId]

NextLate ==
  \/ CaptureData
  \/ SchedulerPoll
  \/ MonitorIdle
  \/ BatchMonitor
  \/ ManualTrigger
  \/ PrismaReply
  \/ PrismaForcedReply
  \/ TimePasses

SpecLate == InitLate /\ [][NextLate]_vars

\* ------------------------------------------------ a typing session
\* The scheduler's interval fires every PollPeriod. The user types: in
\* every period the content script sends one capture, except in at most
\* MaxPauses of the periods that the buffer still covers.
Pauses ==
  IF rawCaptureData = <<>> THEN MaxPauses
  ELSE (now - rawCaptureData[1].receivedAt) \div PollPeriod - Len(rawCaptureData)

Keystroke ==
  /\ lastOp.op \in {"init", "tick"}
  /\ \E url \in SampleUrls : capture(DiffNotes, url)

TimerPoll ==
  /\ lastOp.op # "poll"
  /\ lastOp.op \in {"init", "tick"} => Pauses < MaxPauses
  /\ schedulerPoll

PeriodPasses ==
  /\ lastOp.op = "poll"
  /\ now < StartTime + MaxRounds * PollPeriod
  /\ Tick(PollPeriod)
  /\ UNCHANGED sysVars

NextTyping ==
  \/ Keystroke
  \/ TimerPoll
  \/ PeriodPasses

SpecTyping == Init /\ [][NextTyping]_vars

\* ------------------------------------------------- a session with pauses
\* The interval of startDynamicBatchProcessing fires every 5 s, counted from
\* the construction of the processor. At most MaxKeys captures arrive, each
\* on a poll instant before the poll or half a period after one, followed by
\* pauses of any length up to the end of the session.
MaxKeys == 3
MaxHalfPeriods == 20
HalfPeriod == PollPeriod \div 2
OnPoll == now > StartTime /\ (now - StartTime) % PollPeriod = 0

PauseKey ==
  /\ lastOp.op \in {"init", "tick"}
  /\ Len(rawCaptureData) < MaxKeys
  /\ \E url \in SampleUrls : capture(DiffNotes, url)

PausePoll ==
  /\ OnPoll
  /\ lastOp.op # "poll"
  /\ schedulerPoll

PausePasses ==
  /\ OnPoll => lastOp.op = "poll"
  /\ now < StartTime + MaxHalfPeriods * HalfPeriod
  /\ Tick(HalfPeriod)
  /\ UNCHANGED sysVars

NextPause ==
  \/ PauseKey
  \/ PausePoll
  \/ PausePasses

SpecPause == Init /\ [][NextPause]_vars

\* ================================================================ claims
\* what the last operation analysed, and the clock it read
Score     == ConcerningSignals(lastOp.text)
Success   == lastOp.text.math /\ lastOp.text.correct
MathText  == lastOp.text.math
Analysed  == lastOp.op = "analyze" /\ lastOp.given
Forced    == lastOp.op = "force" /\ lastOp.given
Elapsed   == now - lastOp.lnt
SuccessOnly == Success /\ Score = 0

\* C1: interferenceLevel is an integer in {0,1,2,3} in every reachable state,
\* for any sequence of analyses, forced requests, replies and resets.
C1_LevelInRange == interferenceLevel \in {0, 1, 2, 3}
C1_Witness == lastOp.op = "analyze" /\ interferenceLevel = 3

\* C2: when the model answers "SILENT" (any letter case) to a non-forced
\* call, no Nudge is emitted, nudgeHistory keeps its length and
\* lastNudgeTime is unchanged, whatever the analysis was.
SilentReply(reply) ==
  reply.ok /\ reply.hasContent /\ ToUpperCase(Trim(reply.text)) = SilentWord
C2_SilenceContract ==
  (lastOp.op = "reply" /\ lastOp.kind = "auto" /\ SilentReply(lastOp.reply))
    => /\ ~lastOp.emitted
       /\ Len(nudgeHistory) = lastOp.len
       /\ lastNudgeTime = lastOp.lnt

\* C3: shouldNudge answers true only if there is a problem or a success and
\* the time since the last nudge is strictly greater than the applicable
\* cooldown: 5 s for success without problems, otherwise 10/15/20/30 s by
\* level, capped at 8 s when mathematical content comes with problems; it
\* answers false whenever the elapsed time is below that cooldown.
C3_Table == <<15000, 20000, 30000>>
C3_Cooldown ==
  IF Success /\ Score = 0 THEN 5000
  ELSE LET byLevel == IF interferenceLevel = 0 THEN 10000 ELSE C3_Table[interferenceLevel]
       IN  IF MathText /\ Score > 0 /\ byLevel > 8000 THEN 8000 ELSE byLevel
C3_CooldownRespected ==
  Analysed =>
    /\ lastOp.should => ((Score > 0 \/ Success) /\ Elapsed > C3_Cooldown)
    /\ Elapsed < C3_Cooldown => ~lastOp.should
    /\ lastOp.started = lastOp.should
C3_Witness ==
  /\ Analysed /\ lastOp.should
  /\ lastOp.lnt > 0
  /\ Elapsed > C3_Cooldown /\ Elapsed <= 10000

\* C6 (as claimed): the level rises only in an update whose score reaches an
\* escalation threshold, falls only through success with zero concern or
\* time decay with a score below 2, and no other operation changes it.
C6_Original ==
  /\ interferenceLevel > lastOp.level => (Analysed /\ Score >= 2)
  /\ interferenceLevel < lastOp.level
       => (Analysed /\ (SuccessOnly \/ (Elapsed > 300000 /\ Score < 2)))

\* C6 (amended): as claimed for updates, and the only other operations that
\* change the level are a forced request, which raises level 0 to 1 whatever
\* the score, and reset, which sets it to 0.
C6_LevelChanges ==
  /\ interferenceLevel > lastOp.level
       => \/ Analysed /\ Score >= 2
          \/ Forced /\ lastOp.level = 0 /\ interferenceLevel = 1
  /\ interferenceLevel < lastOp.level
       => \/ Analysed /\ (SuccessOnly \/ (Elapsed > 300000 /\ Score < 2))
          \/ lastOp.op = "reset" /\ interferenceLevel = 0
C6_Witness ==
  /\ Analysed /\ interferenceLevel < lastOp.level
  /\ ~SuccessOnly /\ Elapsed > 300000 /\ Score < 2

\* C7: without the success short-circuit an update with score >= 6 ends at
\* max(level,3), with score >= 4 at max(level,2), with score >= 2 at
\* max(level,1); Scenario A (score 3) ends at level >= 1, Scenario B
\* (score 5) at level >= 2, and the level never falls when the score is >= 2.
C7_Escalation ==
  (Analysed /\ ~SuccessOnly) =>
    /\ Score >= 6 => interferenceLevel = Max(lastOp.level, 3)
    /\ (Score >= 4 /\ Score < 6) => interferenceLevel = Max(lastOp.level, 2)
    /\ (Score >= 2 /\ Score < 4) => interferenceLevel = Max(lastOp.level, 1)
    /\ Score >= 2 => interferenceLevel >= lastOp.level
    /\ lastOp.text = TextScenarioA => (Score = 3 /\ interferenceLevel >= 1)
    /\ lastOp.text = TextScenarioB => (Score = 5 /\ interferenceLevel >= 2)
C7_Witness ==
  /\ Analysed /\ lastOp.text = TextScenarioA
  /\ lastOp.level = 3 /\ interferenceLevel = 3

\* C8: in an update with hasSuccessIndicators and concerningSignals = 0 the
\* level becomes max(0, level - 1), nothing else is applied to it, and
\* shouldNudge uses the 5 s cooldown for that analysis.
C8_SuccessDeEscalation ==
  (Analysed /\ SuccessOnly) =>
    /\ interferenceLevel = Max(0, lastOp.level - 1)
    /\ lastOp.cooldown = 5000
    /\ lastOp.should = (Elapsed > 5000)
C8_Witness ==
  /\ Analysed /\ SuccessOnly
  /\ lastOp.level = 3 /\ interferenceLevel = 2
  /\ Elapsed > 300000

\* C9 (as claimed): in every update with more than 5 minutes since the last
\* nudge and a score below 2, decay lowers the level by one (floor 0) after
\* the other rules, also when the success de-escalation was applied.
C9_Original ==
  (Analysed /\ Elapsed > 300000 /\ Score < 2) =>
    interferenceLevel =
      Max(0, (IF SuccessOnly THEN Max(0, lastOp.level - 1) ELSE lastOp.level) - 1)

\* C9 (amended): decay follows the escalate step only.  In an update without
\* the success short-circuit the level is lowered by one (floor 0) exactly
\* when more than 5 minutes have passed since the last nudge and the score
\* is below 2; an update with the success de-escalation lowers the level by
\* exactly one and applies no decay.
C9_EscalatedLevel ==
  IF Score >= 6 THEN Max(lastOp.level, 3)
  ELSE IF Score >= 4 THEN Max(lastOp.level, 2)
  ELSE IF Score >= 2 THEN Max(lastOp.level, 1)
  ELSE lastOp.level
C9_Decay ==
  Analysed =>
    /\ (~SuccessOnly /\ Elapsed > 300000 /\ Score < 2)
         => interferenceLevel = Max(0, lastOp.level - 1)
    /\ (~SuccessOnly /\ ~(Elapsed > 300000 /\ Score < 2))
         => interferenceLevel = C9_EscalatedLevel
    /\ SuccessOnly => interferenceLevel = Max(0, lastOp.level - 1)
C9_Witness ==
  /\ Analysed /\ SuccessOnly /\ Elapsed > 300000
  /\ lastOp.level = 2 /\ interferenceLevel = 1

\* C10: a forced request with a batch and an API key starts a generate call
\* whatever the time since the last nudge and whatever the score, raises the
\* level to 1 when it was 0 and leaves it unchanged when it was >= 1.
C10_ForcedBypass ==
  Forced =>
    /\ lastOp.started
    /\ calls # <<>>
    /\ calls[Len(calls)].kind = "forced" /\ calls[Len(calls)].now = now
    /\ interferenceLevel = (IF lastOp.level = 0 THEN 1 ELSE lastOp.level)
C10_Witness ==
  /\ Forced /\ Score = 0
  /\ lastOp.lnt > 0 /\ Elapsed < 10000
  /\ lastOp.level >= 2 /\ interferenceLevel = lastOp.level
\* C4: the cooldown is a minimum spacing between nudges: whenever the
\* automatic path appends a nudge to nudgeHistory behind another entry, the
\* new nudge's timestamp exceeds the previous entry's timestamp by more than
\* the cooldown shouldNudge applied when the new nudge's analysis was let
\* through, whatever the interleaving of analyses, manual requests and
\* completions.
C4_MinimumSpacing ==
  (lastOp.op = "reply" /\ lastOp.kind = "auto" /\ lastOp.emitted /\ Len(nudgeHistory) >= 2)
    => LET n == Len(nudgeHistory)
       IN  nudgeHistory[n].timestamp - nudgeHistory[n - 1].timestamp > lastOp.cooldown

\* C5: at most one generate call started by analyzeAndNudge or
\* forceAnalyzeAndNudge is awaiting the model's reply at any time.
C5_SingleFlight == Len(calls) <= 1

\* C11: in forced mode every reply the model returns, "SILENT" in any letter
\* case and blank text included, ends in an emitted Nudge with non-empty
\* text; a forced request never ends in silence.
ReturnedReply(reply) == reply.ok /\ reply.hasContent
C11_ForcedNeverSilent ==
  (lastOp.op = "reply" /\ lastOp.kind = "forced" /\ ReturnedReply(lastOp.reply))
    => /\ lastOp.emitted
       /\ Len(nudgeHistory) > 0
       /\ nudgeHistory[Len(nudgeHistory)].text # <<>>

\* C12: every manual trigger that does not deliver a nudge answers the
\* caller with an error and a reason: "no data" with an empty buffer, and
\* likewise when the forced model call fails.
ManualEnded ==
  \/ lastOp.op = "manual"
  \/ lastOp.op = "reply" /\ lastOp.kind = "forced"
C12_ManualFailureSurfaced ==
  (ManualEnded /\ ~manualResponse.nudgeGenerated)
    => ~manualResponse.success /\ manualResponse.error # "none"

\* C13: when the generate call of an automatic analysis fails (network or
\* model error, or a reply without the expected fields), the completion
\* emits no Nudge, leaves nudgeHistory and lastNudgeTime as they were, and
\* leaves everything the scheduler and batch-monitor polls depend on as it
\* was, so later polls run as before.
FailedReply(reply) == ~reply.ok \/ ~reply.hasContent \/ reply.text = <<>>
C13_FailureIsNoNudge ==
  [][(lastOp'.op = "reply" /\ lastOp'.kind = "auto" /\ FailedReply(lastOp'.reply))
       => /\ ~lastOp'.emitted
          /\ UNCHANGED <<nudgeHistory, lastNudgeTime>>
          /\ UNCHANGED sysVars]_vars
C13_Witness ==
  /\ lastOp.op = "reply" /\ lastOp.kind = "auto" /\ ~lastOp.reply.ok
  /\ ConcerningSignals(lastOp.text) > 0
  /\ structuredBatches # <<>>

\* C14: every emitted nudge, automatic or forced, is the last element of
\* nudgeHistory when its request completes, and lastNudgeTime then equals
\* that nudge's timestamp.
C14_EmittedBecomesLast ==
  (lastOp.op = "reply" /\ lastOp.emitted)
    => /\ Len(nudgeHistory) > 0
       /\ nudgeHistory[Len(nudgeHistory)].forced = (lastOp.kind = "forced")
       /\ lastNudgeTime = nudgeHistory[Len(nudgeHistory)].timestamp

\* C15: the history lists stay capped in every reachable state: nudgeHistory
\* never holds more than 20 nudges and the batch history never more than 10
\* batches, and a push beyond the cap drops the oldest element: what is
\* kept are the most recent elements in insertion order.
PushedWithin(old, new, cap) ==
  /\ Len(new) > 0
  /\ LET all == Append(old, new[Len(new)])
     IN  new = IF Len(all) > cap THEN Tail(all) ELSE all
C15_HistoryCaps ==
  /\ [](Len(nudgeHistory) <= 20 /\ Len(structuredBatches) <= 10)
  /\ [][/\ IF lastOp'.op = "reply" /\ lastOp'.emitted
           THEN PushedWithin(nudgeHistory, nudgeHistory', 20)
           ELSE UNCHANGED nudgeHistory
        /\ IF (lastOp'.op = "poll" /\ lastOp'.started) \/ (lastOp'.op = "force" /\ lastOp'.given)
           THEN PushedWithin(structuredBatches, structuredBatches', 10)
           ELSE UNCHANGED structuredBatches]_vars
C15_Witness ==
  /\ lastOp.op = "reply" /\ lastOp.emitted
  /\ lastOp.len = 20 /\ Len(nudgeHistory) = 20
  /\ Len(structuredBatches) = 10
  /\ structuredBatches[10].batchId = nudgeHistory[20].batchId
  /\ nudgeHistory[20].timestamp = StartTime

\* C16: immediately after every addCaptureData the buffer holds no entry
\* received 2 minutes or more before that add and holds every entry received
\* less than 2 minutes before it, the new one included, in order of receipt:
\* eviction is by age only, never by count.
C16_Eviction ==
  [][lastOp'.op = "capture"
       => /\ Len(rawCaptureData') > 0
          /\ rawCaptureData'[Len(rawCaptureData')].receivedAt = now
          /\ rawCaptureData' =
               SelectSeq(Append(rawCaptureData, rawCaptureData'[Len(rawCaptureData')]),
                         LAMBDA e : now - e.receivedAt < 120000)]_vars
C16_Witness ==
  /\ lastOp.op = "capture"
  /\ now = StartTime + 120000
  /\ rawCaptureData[1].receivedAt = StartTime + 5000
  /\ Len(rawCaptureData) >= 20

\* C18: a batch is never withheld indefinitely: an entry received after the
\* last seal is contained in a batch sealed by some later scheduler poll,
\* whatever the user does next, as long as the poll timer keeps firing.
\* Batches are composed from the buffer, so no entry may leave the buffer
\* before a scheduler seal has taken it.
C18_NeverWithheld ==
  [][\A k \in 1..Len(rawCaptureData) :
       (\A j \in 1..Len(rawCaptureData') : rawCaptureData'[j] # rawCaptureData[k])
         => rawCaptureData[k].receivedAt <= lastProcessTime]_vars

\* the buffered entries received after the last scheduler seal
Unsealed == SelectSeq(rawCaptureData, LAMBDA e : e.receivedAt > lastProcessTime)
PolledIdle == lastOp.op = "poll" /\ rawCaptureData # <<>> /\ now - lastActivityTime >= 45000

\* C17 as stated: at any scheduler poll where the time since the last
\* activity is >= 45 s, the poll seals a batch.
C17_Original == PolledIdle => lastOp.started

\* C17: at a scheduler poll where the time since the last activity is
\* >= 45 s and the buffer holds entries received after the previous seal,
\* the poll seals, by the maximum-wait rule, one batch made of exactly those
\* entries; when the buffer holds no such entry the poll seals nothing. Such
\* entries are never present less than 15 s after the previous seal, so the
\* ceiling never has to override the minimum wait.
C17_SealCeiling ==
  /\ []((Unsealed # <<>> /\ now - lastActivityTime >= 45000)
          => now - lastProcessTime >= 15000)
  /\ [][(lastOp'.op = "poll" /\ rawCaptureData # <<>> /\ now - lastActivityTime >= 45000)
          => IF Unsealed # <<>>
             THEN /\ lastOp'.started /\ lastOp'.reason = "max wait"
                  /\ lastProcessTime' = now
                  /\ Len(structuredBatches') > 0
                  /\ LET batch == structuredBatches'[Len(structuredBatches')]
                     IN  /\ batch.timestamp = now
                         /\ batch.rawEntryCount = Len(Unsealed)
                         /\ batch.structuredText = createStructuredBatch(Unsealed)
             ELSE /\ ~lastOp'.started /\ lastOp'.reason = "max wait"
                  /\ UNCHANGED <<structuredBatches, lastProcessTime>>]_vars
C17_Witness ==
  /\ lastOp.op = "poll" /\ lastOp.started /\ lastOp.reason = "max wait"
  /\ structuredBatches[Len(structuredBatches)].timestamp = now
  /\ structuredBatches[Len(structuredBatches)].rawEntryCount < Len(rawCaptureData)

Weight(found, w) == IF found THEN w ELSE 0
C20_ScoreAndUrgency ==
  Analysed =>
    LET t == lastOp.text
    IN  /\ lastOp.score =
               Weight("error_signal" \in t.tags, 1)
             + Weight("confusion_signal" \in t.tags, 2)
             + Weight("repetitive" \in t.tags, 1)
             + Weight(\E d \in t.delays : d > 30, 1)
             + Weight("context_switching" \in t.behaviors, 1)
             + Weight("frequent_errors" \in t.behaviors, 2)
             + Weight("prolonged_focus" \in t.behaviors /\ t.duration > 300, 1)
             + Weight(t.math /\ t.mathError, 2)
             + Weight("incorrect_answer_signal" \in t.tags, 3)
        /\ (lastOp.urgency = "high") = (lastOp.score >= 6)
        /\ (lastOp.urgency = "medium") = (lastOp.score \in 3..5)
        /\ (lastOp.urgency = "low") = (lastOp.score < 3)
C20_Witness ==
  /\ Analysed /\ lastOp.score = 14 /\ lastOp.urgency = "high"
  /\ Cardinality(lastOp.text.delays) = 2

\* C21: for every set of patterns present in a batch, adding any one further
\* concerning pattern while the others stay fixed never decreases
\* concerningSignals and never lowers the urgency tier.
OneMorePattern(t) ==
       {[t EXCEPT !.tags = @ \cup {tag}] :
          tag \in {"error_signal", "confusion_signal", "repetitive", "incorrect_answer_signal"} \ t.tags}
  \cup {[t EXCEPT !.delays = @ \cup {d}] : d \in {31, 45, 90} \ t.delays}
  \cup {[t EXCEPT !.behaviors = @ \cup {b}] :
          b \in {"context_switching", "frequent_errors"} \ t.behaviors}
  \cup (IF "prolonged_focus" \in t.behaviors /\ t.duration > 300 THEN {}
        ELSE {[t EXCEPT !.behaviors = @ \cup {"prolonged_focus"}, !.duration = 301]})
  \cup (IF t.math /\ t.mathError THEN {} ELSE {[t EXCEPT !.math = TRUE, !.mathError = TRUE]})
Tier(urgency) == CASE urgency = "low" -> 0 [] urgency = "medium" -> 1 [] urgency = "high" -> 2
C21_Monotone ==
  Analysed =>
    \A more \in OneMorePattern(lastOp.text) :
      /\ analyzeStructuredText(more).concerningSignals >= lastOp.score
      /\ Tier(analyzeStructuredText(more).urgency) >= Tier(lastOp.urgency)
C21_Witness ==
  /\ Analysed /\ lastOp.score = 6 /\ lastOp.urgency = "high"
  /\ \E more \in OneMorePattern(lastOp.text) :
       analyzeStructuredText(more).concerningSignals = 9

\* C22: batchId is unique: no two batches produced in a session, by
\* automatic or forced seals in any interleaving and timing, carry the same
\* batchId.
C22_UniqueBatchIds ==
  \A i, j \in 1..Len(structuredBatches) :
    i # j => structuredBatches[i].batchId # structuredBatches[j].batchId

\* C23: level 0 is the silent baseline: the automatic path never emits a
\* nudge whose recorded level is 0.
C23_LevelZeroSilent ==
  \A k \in 1..Len(nudgeHistory) :
    ~nudgeHistory[k].forced => nudgeHistory[k].level # 0

\* C24: at a scheduler poll where the time since the last seal is >= 15 s
\* and at least 2 of the last 3 buffered entries contain an urgent keyword,
\* the scheduler decides to seal, also when the time since the last activity
\* is below the 10 s thought-complete threshold; the entries received since
\* the last seal, if any, become a batch at that poll.
UrgentEntries ==
  {k \in Max(1, Len(rawCaptureData) - 2)..Len(rawCaptureData) : rawCaptureData[k].diff.urgentKw}
C24_UrgentSeal ==
  [][(lastOp'.op = "poll" /\ now - lastProcessTime >= 15000 /\ Cardinality(UrgentEntries) >= 2)
       => /\ lastOp'.reason # "none"
          /\ Unsealed # <<>> =>
               /\ lastOp'.started
               /\ lastProcessTime' = now
               /\ structuredBatches'[Len(structuredBatches')].rawEntryCount = Len(Unsealed)]_vars
C24_Witness ==
  /\ lastOp.op = "poll" /\ lastOp.started /\ lastOp.reason = "urgent"
  /\ now - lastActivityTime < 10000
  /\ Cardinality(UrgentEntries) >= 2
  /\ structuredBatches[Len(structuredBatches)].timestamp = now

\* C25: in automatic mode, when the model's reply is empty after cleaning
\* (it is only white space, or it is the word SILENT) and the batch's
\* concerningSignals is above 0, a nudge with the generic fallback text is
\* emitted and recorded; when concerningSignals is 0 no nudge is emitted and
\* nudgeHistory and lastNudgeTime do not change.
EmptyReply(reply) ==
  /\ reply.ok /\ reply.hasContent /\ reply.text # <<>>
  /\ Trim(reply.text) = <<>> \/ ToUpperCase(Trim(reply.text)) = SilentWord
C26_SealsPartition ==
  lastOp.op = "capture" =>
    rawCaptureData[Len(rawCaptureData)].receivedAt > lastProcessTime

\* C27: every batch is analyzed at most once: no batchId is passed to the
\* nudge system twice, so a batch passed to analyzeAndNudge by the batch
\* monitor is not one that a manual trigger passed to forceAnalyzeAndNudge
\* (whose request is still in flight or has left a forced nudge).
C27_AnalyzedOnce ==
  (lastOp.op = "analyze" /\ lastOp.given /\ structuredBatches # <<>>) =>
    LET id == structuredBatches[Len(structuredBatches)].batchId
    IN  /\ \A k \in 1..Len(calls) : calls[k].kind = "forced" => calls[k].batchId # id
        /\ \A k \in 1..Len(nudgeHistory) : nudgeHistory[k].forced => nudgeHistory[k].batchId # id

\* C28: in a run without reset, lastNudgeTime never decreases from one
\* state to the next, whatever the interleaving of forced requests in
\* flight, automatic analyses and completions.
C28_LastNudgeTimeMonotone ==
  [][lastOp'.op # "reset" => lastNudgeTime' >= lastNudgeTime]_vars

\* C29: the level recorded in an emitted nudge equals the interference
\* level that selected the prompt template of that nudge's generate call
\* (1 the gentle nudge, 2 the hint, 3 the direct suggestion, any other level
\* the default template), also when other analyses or forced requests
\* change the level while the call is in flight.
TemplateLevel(prompt) ==
  CASE prompt = "gentle" -> 1 [] prompt = "hint" -> 2 [] prompt = "direct" -> 3 [] OTHER -> 0
C29_LevelMatchesPrompt ==
  (/\ lastOp.op = "reply" /\ lastOp.kind = "auto" /\ lastOp.emitted
   /\ lastOp.prompt \in {"gentle", "hint", "direct", "default"})
    => nudgeHistory[Len(nudgeHistory)].level = TemplateLevel(lastOp.prompt)

\* C30: with the scheduler polling every 5 s, an entry received strictly
\* after the last seal and followed by no further entry is part of an
\* automatic seal before 20 s have passed since its receipt; so no automatic
\* seal is first triggered by the 45 s ceiling, and consecutive entries
\* waiting for one automatic batch were received less than 20 s apart.
C30_SealLatency ==
  /\ Unsealed # <<>> => now - lastActivityTime < 20000
  /\ (lastOp.op = "poll" /\ lastOp.started) => lastOp.reason # "max wait"
  /\ \A k \in 1..(Len(Unsealed) - 1) :
       Unsealed[k + 1].receivedAt - Unsealed[k].receivedAt < 20000
C30_Witness ==
  /\ lastOp.op = "poll" /\ lastOp.started /\ lastOp.reason = "thought complete"
  /\ Len(structuredBatches) = 2
  /\ (lastActivityTime - StartTime) % 5000 # 0
  /\ now - lastActivityTime >= 10000 /\ now - lastActivityTime < 20000
  /\ Unsealed = <<>>

====
